---- MODULE Spec2Model ----
(***************************************************************************)
(* dcm-redact (src/src/main.rs): the App state of the redaction tool, its  *)
(* pure pixel functions (blacken_rect, fit_within_max_dim,                 *)
(* gray16_to_display_color_image, screen_to_pixel), the loaders            *)
(* (load_dcm, load_image), the DICOM writer and the event handlers of      *)
(* App::update.                                                            *)
(*                                                                         *)
(* Images are row-major sample sequences as in Vec<u16>.  Option<T> is a   *)
(* set with at most one element.  Screen coordinates are integers and the  *)
(* f32 arithmetic of screen_to_pixel is carried out exactly.               *)
(***************************************************************************)
EXTENDS Integers, Sequences, FiniteSets, TLC

VARIABLES
    gray_img,                   \* Option<Gray16Image>
    color_img,                  \* Option<ColorImage>
    tex,                        \* Option<TextureHandle>, by the image it shows
    display_dims,               \* Option<(u32,u32)>
    drag_start_px,              \* Option<[u32;2]>
    drag_start_screen,          \* Option<Pos2>
    drag_current_screen,        \* Option<Pos2>
    opened_path,                \* Option<PathBuf>
    fit_scale,                  \* UI zoom
    is_dcm,                     \* bool
    dcm,                        \* Option<FileDicomObject>
    last_error,                 \* Option<String>
    photometric_interpretation, \* Option<String>
    fs,                         \* the file system: path -> file content
    origin,                     \* history: the load that produced gray_img
    redacted,                   \* history: positions dragged over since that load
    hist,                       \* history: the last operation and its outcome
    steps                       \* number of operations so far

appvars == <<gray_img, color_img, tex, display_dims, drag_start_px,
             drag_start_screen, drag_current_screen, opened_path, fit_scale,
             is_dcm, dcm, last_error, photometric_interpretation>>
vars == <<gray_img, color_img, tex, display_dims, drag_start_px,
          drag_start_screen, drag_current_screen, opened_path, fit_scale,
          is_dcm, dcm, last_error, photometric_interpretation,
          fs, origin, redacted, hist, steps>>

-----------------------------------------------------------------------------
(* Bounds of the model *)
MaxW == 2
MaxH == 2
MaxCoord == 2
MaxSteps == 3
MaxTripSteps == 6
MaxProjSteps == 4
MaxRect == 3

(* Program constants *)
MaxDisplayDim == 8192
Bits16 == 16
HighBit15 == 15
Unsigned == 0

-----------------------------------------------------------------------------
(* Option<T> *)
None == {}
Some(v) == {v}
IsSome(o) == o # {}
Get(o) == CHOOSE v \in o : TRUE

Min(a, b) == IF a <= b THEN a ELSE b
Max(a, b) == IF a >= b THEN a ELSE b
Clamp(v, lo, hi) == IF v < lo THEN lo ELSE IF v > hi THEN hi ELSE v
SatSub(a, b) == IF a > b THEN a - b ELSE 0
Pow2(n) == 2 ^ n

-----------------------------------------------------------------------------
(* Gray16Image = ImageBuffer<Luma<u16>, Vec<u16>>: w, h and the row-major  *)
(* buffer; buf[y*w + x + 1] is the sample at (x, y).                       *)
Positions(img) == (0..(img.w - 1)) \X (0..(img.h - 1))
GetPixel(img, x, y) == img.buf[y * img.w + x + 1]

(* Source samples: 16-bit words with a nonzero high byte and low byte, the *)
(* extremes, and position-dependent patterns that tell pixels apart.       *)
Pattern(pat, x, y) ==
    IF pat = "flat" THEN 65535
    ELSE IF pat = "grid" THEN 4660 + 256 * (x + 4 * y)
    ELSE IF (x + y) % 2 = 0 THEN 0 ELSE 65535 - 16 * x
MkImage(w, h, pat) ==
    [w |-> w, h |-> h,
     buf |-> [i \in 1..(w * h) |-> Pattern(pat, (i - 1) % w, (i - 1) \div w)]]
Images ==
    {MkImage(w, h, pat) : <<w, h, pat>> \in (1..MaxW) \X (1..MaxH) \X {"flat", "grid", "edge"}}

-----------------------------------------------------------------------------
(* blacken_rect: the columns (rows) the two loops visit.  x0 is clamped to *)
(* w-1 (saturating), x1 to w; a Rust range a..b is empty when a >= b.      *)
(* Faulty variant: the upper end is not clamped to the dimension. *)
BlackenRange_Unclamped(dim, lo, hi) == Min(lo, SatSub(dim, 1))..(hi - 1)
BlackenRange(dim, lo, hi) ==
    LET c0 == Min(lo, SatSub(dim, 1))
        c1 == Min(hi, dim)
    IN  c0..(c1 - 1)

(* The (x, y) arguments of every put_pixel call of blacken_rect. *)
BlackenWrites(w, h, x0, y0, x1, y1) ==
    BlackenRange(w, x0, x1) \X BlackenRange(h, y0, y1)

(* put_pixel of Luma([0]) at every visited position. *)
blacken_rect(img, x0, y0, x1, y1) ==
    LET wr == BlackenWrites(img.w, img.h, x0, y0, x1, y1)
    IN  [img EXCEPT !.buf =
            [i \in DOMAIN img.buf |->
                IF <<(i - 1) % img.w, (i - 1) \div img.w>> \in wr
                THEN 0 ELSE img.buf[i]]]

(* fit_within_max_dim: round() is half away from zero, here on positives. *)
RoundDiv(n, d) == (2 * n + d) \div (2 * d)
fit_within_max_dim(w, h, max_dim) ==
    LET max_side == Max(w, h)
    IN  IF max_side <= max_dim THEN <<w, h>>
        ELSE <<Max(RoundDiv(w * max_dim, max_side), 1),
               Max(RoundDiv(h * max_dim, max_side), 1)>>

(* image::imageops::resize with FilterType::Nearest: output pixel x takes  *)
(* the source pixel under the centre (x + 0.5) * w / nw.                   *)
NearestIndex(o, n, nn) == Min(((2 * o + 1) * n) \div (2 * nn), n - 1)
ResizeNearest(full, nw, nh) ==
    [w |-> nw, h |-> nh,
     buf |-> [i \in 1..(nw * nh) |->
                GetPixel(full, NearestIndex((i - 1) % nw, full.w, nw),
                               NearestIndex((i - 1) \div nw, full.h, nh))]]

(* gray16_to_display_color_image: the high byte of each resized sample,    *)
(* inverted when photometric is Some("MONOCHROME1").                       *)
DisplayByte(sample, invert) ==
    LET v == sample \div 256
    IN  IF invert THEN SatSub(255, v) ELSE v
gray16_to_display_color_image(full, display_w, display_h, photometric) ==
    LET resized == ResizeNearest(full, display_w, display_h)
        invert == photometric = Some("MONOCHROME1")
    IN  [size |-> <<display_w, display_h>>,
         pixels |-> [i \in DOMAIN resized.buf |-> DisplayByte(resized.buf[i], invert)]]

-----------------------------------------------------------------------------
(* Screen geometry.  egui::Rect is [min, max]; Rect::contains is inclusive *)
(* on all four edges.                                                      *)
MkRect(left, top, width, height) ==
    [left |-> left, top |-> top, right |-> left + width, bottom |-> top + height]
RectContains(r, p) ==
    /\ r.left <= p[1] /\ p[1] <= r.right
    /\ r.top <= p[2] /\ p[2] <= r.bottom

(* One axis of screen_to_pixel: floor(((p - left) / width) * dim) clamped  *)
(* to [0, dim-1].  A zero width gives NaN, which `as u32` turns into 0.    *)
(* Faulty variant: the index is not clamped to [0, dim-1]. *)
AxisToPixel_Unclamped(p, left, width, dim) ==
    IF width = 0 THEN 0 ELSE ((p - left) * dim) \div width
AxisToPixel(p, left, width, dim) ==
    IF width = 0 THEN 0
    ELSE Clamp(((p - left) * dim) \div width, 0, dim - 1)

screen_to_pixel(gray, img_rect, p) ==
    IF gray = None THEN None
    ELSE IF ~RectContains(img_rect, p) THEN None
    ELSE Some(<<AxisToPixel(p[1], img_rect.left, img_rect.right - img_rect.left, Get(gray).w),
                AxisToPixel(p[2], img_rect.top, img_rect.bottom - img_rect.top, Get(gray).h)>>)

-----------------------------------------------------------------------------
(* Files.  A path is its stem and extension.  A file is missing, a DICOM   *)
(* container or a raster image.  A container holds the elements the        *)
(* program reads or writes: BitsAllocated (ba), BitsStored (bs), HighBit   *)
(* (hb), PixelRepresentation (pr), PhotometricInterpretation (pi), the     *)
(* PixelData words with Columns x Rows (px), and whether the library can   *)
(* decode its pixel data (ok).  An element is absent, present with a value *)
(* of the wrong type (bad), or present with value v.                       *)
Path(stem, ext) == [stem |-> stem, ext |-> ext]
PathA == Path("a", "dcm")
DefectPath(i) == Path(<<"noba", "badba", "ba8", "nopi", "badpi", "rgb", "lower",
                        "ba8nopi", "corrupt">>[i], "DCM")
PathPng == Path("b", "png")
PathBadPng == Path("bad", "png")
PathOutDcm == Path("out", "dcm")
PathOutPng == Path("out", "png")
DefectPaths == {DefectPath(i) : i \in 1..9}
OpenPaths == {PathA, PathPng, PathBadPng, PathOutDcm, PathOutPng} \cup DefectPaths
SavePaths == {PathOutDcm, PathOutPng}

(* str::eq_ignore_ascii_case(ext, "dcm") *)
IsDcmExt(ext) == ext \in {"dcm", "DCM", "Dcm"}

Elem(st, v) == [st |-> st, v |-> v]
Container(ba, bs, pi, px, ok) ==
    [ba |-> ba, bs |-> bs, hb |-> bs - 1, pr |-> Unsigned, pi |-> pi, px |-> px, ok |-> ok]
MissingFile == [kind |-> "missing"]
DicomFile(c, prov) == [kind |-> "dicom", c |-> c, prov |-> prov]
RasterFile(img, ok, prov) == [kind |-> "raster", img |-> img, ok |-> ok, prov |-> prov]

(* The DICOM sources the validator accepts. *)
ValidTags ==
    {<<ba, bs, pi>> \in {12, 16} \X {12, 16} \X {"MONOCHROME1", "MONOCHROME2"} : bs <= ba}
(* Sources with a defect: <<BitsAllocated, PhotometricInterpretation, ok>>. *)
DefectTags ==
    << <<Elem("absent", 0), Elem("ok", "MONOCHROME2"), TRUE>>,
       <<Elem("bad", 0), Elem("ok", "MONOCHROME2"), TRUE>>,
       <<Elem("ok", 8), Elem("ok", "MONOCHROME2"), TRUE>>,
       <<Elem("ok", 16), Elem("absent", ""), TRUE>>,
       <<Elem("ok", 16), Elem("bad", ""), TRUE>>,
       <<Elem("ok", 16), Elem("ok", "RGB"), TRUE>>,
       <<Elem("ok", 12), Elem("ok", "monochrome1"), TRUE>>,
       <<Elem("ok", 8), Elem("absent", ""), TRUE>>,
       <<Elem("ok", 16), Elem("ok", "MONOCHROME1"), FALSE>> >>
DefectOf(p) == DefectTags[CHOOSE i \in 1..9 : DefectPath(i) = p]

-----------------------------------------------------------------------------
(* decode_pixel_data().to_dynamic_image(0).to_luma16(): the stored bits of *)
(* each word, left-justified into 16 bits.                                 *)
LibDecode(c) ==
    [w |-> c.px.w, h |-> c.px.h,
     buf |-> [i \in DOMAIN c.px.buf |->
                (c.px.buf[i] % Pow2(c.bs)) * Pow2(Bits16 - c.bs)]]
Decodable(c) == c.ok /\ Len(c.px.buf) = c.px.w * c.px.h

(* write_dynamic_image_to_dicom, the puts: the container afterwards. *)
(* Faulty variant: the bit-depth elements of the source are left in place. *)
PutImageTags_KeepDepth(c, img) ==
    [c EXCEPT !.pi = Elem("ok", "MONOCHROME2"), !.px.buf = img.buf]
PutImageTags(c, img) ==
    [c EXCEPT !.ba = Elem("ok", Bits16),
              !.bs = Bits16,
              !.hb = HighBit15,
              !.pr = Unsigned,
              !.pi = Elem("ok", "MONOCHROME2"),
              !.px.buf = img.buf]

(* ImageBuffer::save: the format is chosen by the extension of the path. *)
RasterExt(ext) == ext \in {"png", "tiff", "tif"}

-----------------------------------------------------------------------------
(* load_dcm: the fields of self it leaves and its result. *)
LoadErr(kind, what) == [kind |-> kind, what |-> what]
NoErr == LoadErr("", "")
NoImg == [w |-> 0, h |-> 0, buf |-> <<>>]
LoadOut(d, isd, ph, ok, err, img) ==
    [dcm |-> d, is_dcm |-> isd, pi |-> ph, ok |-> ok, err |-> err, img |-> img]

(* load_dcm, the Bits Allocated check: the error it returns, or NoErr. *)
(* Faulty variant: 8 bits allocated pass the check. *)
CheckBitsAllocated_Allow8(c) ==
    IF c.ba.st = "absent" THEN LoadErr("Missing", "BITS_ALLOCATED")
    ELSE IF c.ba.st = "bad" THEN LoadErr("Invalid", "BITS_ALLOCATED")
    ELSE IF c.ba.v # 16 /\ c.ba.v # 12 /\ c.ba.v # 8
         THEN LoadErr("Mismatched", "BITS_ALLOCATED")
    ELSE NoErr
CheckBitsAllocated(c) ==
    IF c.ba.st = "absent" THEN LoadErr("Missing", "BITS_ALLOCATED")
    ELSE IF c.ba.st = "bad" THEN LoadErr("Invalid", "BITS_ALLOCATED")
    ELSE IF c.ba.v # 16 /\ c.ba.v # 12 THEN LoadErr("Mismatched", "BITS_ALLOCATED")
    ELSE NoErr

(* load_dcm, the Photometric Interpretation check.  The field of self is   *)
(* assigned once the element is read as a string, before its value is      *)
(* compared.                                                               *)
CheckPhotometric(c) ==
    IF c.pi.st = "absent" THEN LoadErr("Missing", "PHOTOMETRIC_INTERPRETATION")
    ELSE IF c.pi.st = "bad" THEN LoadErr("Invalid", "PHOTOMETRIC_INTERPRETATION")
    ELSE IF c.pi.v # "MONOCHROME1" /\ c.pi.v # "MONOCHROME2"
         THEN LoadErr("Mismatched", "PHOTOMETRIC_INTERPRETATION")
    ELSE NoErr

load_dcm(path) ==
    LET f == fs[path]
    IN  IF f.kind # "dicom"
        THEN LoadOut(dcm, is_dcm, photometric_interpretation, FALSE,
                     LoadErr("Failed", "open DICOM file"), NoImg)
        ELSE
        LET c == f.c
            fail(ph, err) == LoadOut(Some(c), TRUE, ph, FALSE, err, NoImg)
            old == photometric_interpretation
        IN  IF CheckBitsAllocated(c) # NoErr THEN fail(old, CheckBitsAllocated(c))
            ELSE IF c.pi.st # "ok" THEN fail(old, CheckPhotometric(c))
            ELSE IF CheckPhotometric(c) # NoErr THEN fail(Some(c.pi.v), CheckPhotometric(c))
            ELSE IF ~Decodable(c) THEN fail(Some(c.pi.v), LoadErr("Failed", "decode pixel data"))
            ELSE LoadOut(Some(c), TRUE, Some(c.pi.v), TRUE, NoErr, LibDecode(c))

(* load_image, the match on the extension: the DICOM arm or image::open. *)
load_full_gray(path) ==
    IF IsDcmExt(path.ext) THEN load_dcm(path)
    ELSE LET f == fs[path]
         IN  IF f.kind = "raster" /\ f.ok
             THEN LoadOut(None, FALSE, None, TRUE, NoErr, f.img)
             ELSE LoadOut(None, FALSE, None, FALSE, LoadErr("Failed", "open image"), NoImg)

(* load_image: the fields of self after the call; last_error is the caller's. *)
load_image(path) ==
    LET r == load_full_gray(path)
    IN  /\ dcm' = r.dcm
        /\ is_dcm' = r.is_dcm
        /\ photometric_interpretation' = r.pi
        /\ IF r.ok
           THEN LET dd == fit_within_max_dim(r.img.w, r.img.h, MaxDisplayDim)
                    ci == gray16_to_display_color_image(r.img, dd[1], dd[2], r.pi)
                IN  /\ gray_img' = Some(r.img)
                    /\ display_dims' = Some(dd)
                    /\ color_img' = Some(ci)
                    /\ tex' = Some(ci)
                    /\ opened_path' = Some(path)
                    /\ fit_scale' = 1
           ELSE UNCHANGED <<gray_img, display_dims, color_img, tex, opened_path, fit_scale>>

-----------------------------------------------------------------------------
(* The open-document part of App, as one value. *)
Doc ==
    [gray_img |-> gray_img, is_dcm |-> is_dcm, dcm |-> dcm,
     photometric_interpretation |-> photometric_interpretation,
     color_img |-> color_img, display_dims |-> display_dims,
     opened_path |-> opened_path]

(* The layout puts the image widget at LayoutOrigin; its size is the       *)
(* display image's size times fit_scale (response.rect).                   *)
LayoutOrigin == <<1, 1>>
(* Integer zoom factors within the slider's range 0.1..=5.0. *)
ZoomLevels == {1, 2}
ScreenPts == (0..MaxCoord) \X (0..MaxCoord)
ImgRect == MkRect(LayoutOrigin[1], LayoutOrigin[2],
                  Get(color_img).size[1] * fit_scale,
                  Get(color_img).size[2] * fit_scale)
WidgetShown == IsSome(tex) /\ IsSome(color_img)
(* egui reports dragged and drag_stopped only after drag_started on the    *)
(* widget; while the pointer is held, no button can be clicked.            *)
Dragging == IsSome(drag_start_screen)

Budget(n) == steps < n
Tick == steps' = steps + 1

(* e.to_string() of the error load_image returns. *)
ErrText(path, err) ==
    [ctx |-> IF IsDcmExt(path.ext) THEN "Invalid DICOM" ELSE "Failed to open image",
     kind |-> err.kind, what |-> err.what]

(* What a successful or failed load leaves in the history variables. *)
LoadHistory(op, path) ==
    LET r == load_full_gray(path)
    IN  /\ last_error' = IF r.ok THEN last_error ELSE Some(ErrText(path, r.err))
        /\ origin' = IF r.ok THEN Some([path |-> path, file |-> fs[path], img |-> r.img])
                     ELSE origin
        /\ redacted' = IF r.ok THEN {} ELSE redacted
        /\ hist' = IF r.ok THEN [op |-> op, ok |-> TRUE, path |-> path]
                   ELSE [op |-> op, ok |-> FALSE, path |-> path, prev |-> Doc, err |-> r.err]

(* "Open Image..." clicked and a file picked. *)
OpenImage(path, n) ==
    /\ Budget(n) /\ ~Dragging
    /\ load_image(path)
    /\ LoadHistory("open", path)
    /\ Tick
    /\ UNCHANGED <<drag_start_px, drag_start_screen, drag_current_screen, fs>>

(* "Reset" clicked. *)
Reset(n) ==
    /\ Budget(n) /\ ~Dragging
    /\ IsSome(opened_path)
    /\ load_image(Get(opened_path))
    /\ LoadHistory("reset", Get(opened_path))
    /\ Tick
    /\ UNCHANGED <<drag_start_px, drag_start_screen, drag_current_screen, fs>>

(* "OK" clicked in the error window. *)
DismissError(n) ==
    /\ Budget(n) /\ ~Dragging
    /\ IsSome(last_error)
    /\ last_error' = None
    /\ hist' = [op |-> "dismiss", ok |-> TRUE]
    /\ Tick
    /\ UNCHANGED <<gray_img, color_img, tex, display_dims, drag_start_px,
                   drag_start_screen, drag_current_screen, opened_path, fit_scale,
                   is_dcm, dcm, photometric_interpretation, fs, origin, redacted>>

(* "Save As..." clicked and an output path chosen; written tells whether   *)
(* the file system takes the write.                                        *)
SaveAs(out, written, n) ==
    /\ Budget(n) /\ ~Dragging
    /\ IsSome(gray_img) /\ IsSome(opened_path)
    /\ LET img == Get(gray_img)
           prov == Some([origin |-> origin, redacted |-> redacted, doc |-> Doc])
       IN  IF is_dcm
           THEN IF IsSome(dcm)
                THEN LET c == PutImageTags(Get(dcm), img)
                     IN  /\ dcm' = Some(c)
                         /\ fs' = IF written THEN [fs EXCEPT ![out] = DicomFile(c, prov)]
                                  ELSE fs
                         /\ hist' = [op |-> "save", ok |-> written, path |-> out,
                                     prev |-> Doc, dicom |-> TRUE]
                ELSE /\ UNCHANGED <<dcm, fs>>
                     /\ hist' = [op |-> "save", ok |-> FALSE, path |-> out,
                                 prev |-> Doc, dicom |-> TRUE]
           ELSE LET done == written /\ RasterExt(out.ext)
                IN  /\ dcm' = dcm
                    /\ fs' = IF done THEN [fs EXCEPT ![out] = RasterFile(img, TRUE, prov)]
                             ELSE fs
                    /\ hist' = [op |-> "save", ok |-> done, path |-> out,
                                prev |-> Doc, dicom |-> FALSE]
    /\ Tick
    /\ UNCHANGED <<gray_img, color_img, tex, display_dims, drag_start_px,
                   drag_start_screen, drag_current_screen, opened_path, fit_scale,
                   is_dcm, last_error, photometric_interpretation, origin, redacted>>

(* The zoom slider, the wheel or a pinch sets fit_scale. *)
Zoom(z, n) ==
    /\ Budget(n)
    /\ z # fit_scale
    /\ fit_scale' = z
    /\ hist' = [op |-> "zoom", ok |-> TRUE]
    /\ Tick
    /\ UNCHANGED <<gray_img, color_img, tex, display_dims, drag_start_px,
                   drag_start_screen, drag_current_screen, opened_path,
                   is_dcm, dcm, last_error, photometric_interpretation,
                   fs, origin, redacted>>

(* rebuild_display_from_full followed by refresh_texture, for the edited   *)
(* image g. *)
rebuild_display_from_full(g) ==
    IF IsSome(g) /\ IsSome(display_dims)
    THEN LET dd == Get(display_dims)
             ci == gray16_to_display_color_image(Get(g), dd[1], dd[2],
                                                 photometric_interpretation)
         IN  color_img' = Some(ci) /\ tex' = Some(ci)
    ELSE UNCHANGED <<color_img, tex>>

apply_blacken(rect_px) ==
    IF IsSome(gray_img)
    THEN LET img == blacken_rect(Get(gray_img), rect_px[1], rect_px[2], rect_px[3], rect_px[4])
         IN  /\ gray_img' = Some(img)
             /\ rebuild_display_from_full(Some(img))
    ELSE UNCHANGED <<gray_img, color_img, tex>>

(* The canonical rectangle of a drag from start_px to end_px. *)
(* Faulty variant: the high ends are not made exclusive. *)
DragRect_Inclusive(start_px, end_px) ==
    << Min(start_px[1], end_px[1]), Min(start_px[2], end_px[2]),
       Max(start_px[1], end_px[1]), Max(start_px[2], end_px[2]) >>
DragRect(start_px, end_px) ==
    << Min(start_px[1], end_px[1]), Min(start_px[2], end_px[2]),
       Max(start_px[1], end_px[1]) + 1, Max(start_px[2], end_px[2]) + 1 >>
(* History: the pixels between the two ends of a drag, both included. *)
DragPositions(a, b) ==
    (Min(a[1], b[1])..Max(a[1], b[1])) \X (Min(a[2], b[2])..Max(a[2], b[2]))

(* response.drag_started() at pointer position p, which is on the widget;  *)
(* response.dragged() is true in the same frame.                           *)
DragStarted(p, n) ==
    /\ Budget(n) /\ WidgetShown /\ ~Dragging
    /\ RectContains(ImgRect, p)
    /\ LET px == screen_to_pixel(gray_img, ImgRect, p)
       IN  IF IsSome(px)
           THEN drag_start_px' = Some(Get(px)) /\ drag_start_screen' = Some(p)
           ELSE UNCHANGED <<drag_start_px, drag_start_screen>>
    /\ drag_current_screen' = Some(p)
    /\ hist' = [op |-> "drag_started", ok |-> TRUE]
    /\ Tick
    /\ UNCHANGED <<gray_img, color_img, tex, display_dims, opened_path, fit_scale,
                   is_dcm, dcm, last_error, photometric_interpretation,
                   fs, origin, redacted>>

(* response.dragged() with the pointer at p, anywhere on the screen. *)
Dragged(p, n) ==
    /\ Budget(n) /\ WidgetShown /\ Dragging
    /\ drag_current_screen' = Some(p)
    /\ hist' = [op |-> "dragged", ok |-> TRUE]
    /\ Tick
    /\ UNCHANGED <<gray_img, color_img, tex, display_dims, drag_start_px,
                   drag_start_screen, opened_path, fit_scale,
                   is_dcm, dcm, last_error, photometric_interpretation,
                   fs, origin, redacted>>

(* response.drag_stopped(). *)
DragStopped(n) ==
    /\ Budget(n) /\ WidgetShown /\ Dragging
    /\ drag_start_px' = None
    /\ drag_current_screen' = None
    /\ drag_start_screen' = None
    /\ LET end_px == IF IsSome(drag_start_px) /\ IsSome(drag_current_screen)
                     THEN screen_to_pixel(gray_img, ImgRect, Get(drag_current_screen))
                     ELSE None
       IN  IF IsSome(end_px)
           THEN LET r == DragRect(Get(drag_start_px), Get(end_px))
                IN  /\ apply_blacken(r)
                    /\ redacted' = redacted \cup DragPositions(Get(drag_start_px), Get(end_px))
                    /\ hist' = [op |-> "drag_stopped", ok |-> TRUE, rect |-> r]
           ELSE /\ UNCHANGED <<gray_img, color_img, tex, redacted>>
                /\ hist' = [op |-> "drag_stopped", ok |-> FALSE, rect |-> <<>>]
    /\ Tick
    /\ UNCHANGED <<display_dims, opened_path, fit_scale, is_dcm, dcm, last_error,
                   photometric_interpretation, fs, origin>>

-----------------------------------------------------------------------------
(* App::new, with the files the operator can pick: a valid DICOM, a DICOM  *)
(* with a defect, a raster image, a corrupt raster image, and two output   *)
(* paths that do not exist yet.                                            *)
AppImages == {MkImage(w, h, "grid") : <<w, h>> \in (1..MaxW) \X (1..MaxH)}

InitFs(img, vt) ==
    [p \in OpenPaths |->
        IF p = PathA
        THEN DicomFile(Container(Elem("ok", vt[1]), vt[2], Elem("ok", vt[3]), img, TRUE), None)
        ELSE IF p \in DefectPaths
        THEN DicomFile(Container(DefectOf(p)[1], Bits16, DefectOf(p)[2], img, DefectOf(p)[3]), None)
        ELSE IF p = PathPng
        THEN RasterFile(MkImage(img.h, img.w, "edge"), TRUE, None)
        ELSE IF p = PathBadPng
        THEN RasterFile(img, FALSE, None)
        ELSE MissingFile]

InitApp ==
    /\ gray_img = None /\ color_img = None /\ tex = None /\ display_dims = None
    /\ drag_start_px = None /\ drag_start_screen = None /\ drag_current_screen = None
    /\ opened_path = None /\ fit_scale = 1 /\ is_dcm = FALSE /\ dcm = None
    /\ last_error = None /\ photometric_interpretation = None

Init ==
    /\ InitApp
    /\ \E img \in AppImages, vt \in ValidTags : fs = InitFs(img, vt)
    /\ origin = None /\ redacted = {}
    /\ hist = [op |-> "new", ok |-> TRUE]
    /\ steps = 0

Next ==
    \/ \E path \in OpenPaths : OpenImage(path, MaxSteps)
    \/ Reset(MaxSteps)
    \/ DismissError(MaxSteps)
    \/ \E out \in SavePaths, written \in BOOLEAN : SaveAs(out, written, MaxSteps)
    \/ \E z \in ZoomLevels : Zoom(z, MaxSteps)
    \/ \E p \in ScreenPts : DragStarted(p, MaxSteps)
    \/ \E p \in ScreenPts : Dragged(p, MaxSteps)
    \/ DragStopped(MaxSteps)

Spec == Init /\ [][Next]_vars

-----------------------------------------------------------------------------
(* A redact-save-reload session: the operator works on the 16-bit          *)
(* MONOCHROME2 DICOM a.dcm, saves to out.dcm on a file system that takes   *)
(* the write, and opens either file.                                       *)
TripTags == {vt \in ValidTags : vt[1] = Bits16 /\ vt[3] = "MONOCHROME2"}

TripInit ==
    /\ InitApp
    /\ \E img \in AppImages, vt \in TripTags : fs = InitFs(img, vt)
    /\ origin = None /\ redacted = {}
    /\ hist = [op |-> "new", ok |-> TRUE]
    /\ steps = 0

TripNext ==
    \/ \E path \in {PathA, PathOutDcm} : OpenImage(path, MaxTripSteps)
    \/ Reset(MaxTripSteps)
    \/ SaveAs(PathOutDcm, TRUE, MaxTripSteps)
    \/ \E p \in ScreenPts : DragStarted(p, MaxTripSteps)
    \/ \E p \in ScreenPts : Dragged(p, MaxTripSteps)
    \/ DragStopped(MaxTripSteps)

TripSpec == TripInit /\ [][TripNext]_vars

-----------------------------------------------------------------------------
(* The state after load_image of a raster file holding img. *)
Opened(img) ==
    LET ci == gray16_to_display_color_image(img, img.w, img.h, None)
        file == RasterFile(img, TRUE, None)
    IN  /\ gray_img = Some(img) /\ color_img = Some(ci) /\ tex = Some(ci)
        /\ display_dims = Some(fit_within_max_dim(img.w, img.h, MaxDisplayDim))
        /\ drag_start_px = None /\ drag_start_screen = None /\ drag_current_screen = None
        /\ opened_path = Some(PathPng) /\ fit_scale = 1 /\ is_dcm = FALSE /\ dcm = None
        /\ last_error = None /\ photometric_interpretation = None
        /\ fs = [p \in OpenPaths |-> IF p = PathPng THEN file ELSE MissingFile]
        /\ origin = Some([path |-> PathPng, file |-> file, img |-> img])
        /\ redacted = {}
        /\ hist = [op |-> "open", ok |-> TRUE, path |-> PathPng]
        /\ steps = 0

(* App::apply_blacken called once on the opened image with any rectangle   *)
(* of unsigned coordinates; writes are the arguments of its put_pixel      *)
(* calls.                                                                  *)
RectCoords == 0..MaxRect
ApplyBlacken(r) ==
    /\ steps = 0
    /\ apply_blacken(r)
    /\ hist' = [op |-> "blacken", ok |-> TRUE, rect |-> r, img |-> Get(gray_img),
                writes |-> BlackenWrites(Get(gray_img).w, Get(gray_img).h,
                                         r[1], r[2], r[3], r[4])]
    /\ Tick
    /\ UNCHANGED <<display_dims, drag_start_px, drag_start_screen, drag_current_screen,
                   opened_path, fit_scale, is_dcm, dcm, last_error,
                   photometric_interpretation, fs, origin, redacted>>

RectInit == \E img \in Images : Opened(img)
RectNext == \E r \in RectCoords \X RectCoords \X RectCoords \X RectCoords : ApplyBlacken(r)
RectSpec == RectInit /\ [][RectNext]_vars

(* App::screen_to_pixel called once with any on-screen rectangle and       *)
(* point.                                                                  *)
ScreenRects ==
    {MkRect(l, t, w, h) : <<l, t, w, h>> \in (0..1) \X (0..1) \X (1..MaxCoord) \X (1..MaxCoord)}
ScreenToPixel(img_rect, p) ==
    /\ steps = 0
    /\ hist' = [op |-> "map", ok |-> TRUE, rect |-> img_rect, p |-> p,
                res |-> screen_to_pixel(gray_img, img_rect, p)]
    /\ Tick
    /\ UNCHANGED <<gray_img, color_img, tex, display_dims, drag_start_px,
                   drag_start_screen, drag_current_screen, opened_path, fit_scale,
                   is_dcm, dcm, last_error, photometric_interpretation,
                   fs, origin, redacted>>

MapInit == \E img \in Images : Opened(img)
MapNext == \E img_rect \in ScreenRects, p \in ScreenPts : ScreenToPixel(img_rect, p)
MapSpec == MapInit /\ [][MapNext]_vars

(* Sessions of open, failed open, redact and reset. *)
ProjNext ==
    \/ \E path \in OpenPaths : OpenImage(path, MaxProjSteps)
    \/ Reset(MaxProjSteps)
    \/ \E p \in ScreenPts : DragStarted(p, MaxProjSteps)
    \/ \E p \in ScreenPts : Dragged(p, MaxProjSteps)
    \/ DragStopped(MaxProjSteps)
ProjSpec == Init /\ [][ProjNext]_vars

-----------------------------------------------------------------------------
(* Properties *)

LoadOp == hist.op \in {"open", "reset"}

(* C1: atomic load.  A load attempt (Open or Reset) that fails while a     *)
(* document is open leaves every part of the open-document state (buffer,  *)
(* DICOM flag, container, photometric interpretation, display image,       *)
(* display dimensions, path) as it was before the attempt.                 *)
C1_AtomicLoad ==
    (LoadOp /\ ~hist.ok /\ IsSome(hist.prev.gray_img)) => Doc = hist.prev

(* C2: containment.  After apply(img, r), every sample inside r clamped to *)
(* [0,w] x [0,h] is 0 and every other sample is unchanged; an empty        *)
(* clamped rectangle leaves the buffer unchanged.                          *)
ClampedRect(img, r) ==
    <<Min(r[1], img.w), Min(r[2], img.h), Min(r[3], img.w), Min(r[4], img.h)>>
InRect(pos, c) == c[1] <= pos[1] /\ pos[1] < c[3] /\ c[2] <= pos[2] /\ pos[2] < c[4]
C2_Containment ==
    hist.op = "blacken" =>
        LET old == hist.img
            new == Get(gray_img)
            c == ClampedRect(old, hist.rect)
        IN  /\ new.w = old.w /\ new.h = old.h
            /\ \A pos \in Positions(old) :
                  GetPixel(new, pos[1], pos[2]) =
                     IF InRect(pos, c) THEN 0 ELSE GetPixel(old, pos[1], pos[2])

(* C10: clamp safety.  apply calls put_pixel only at positions (x, y) with *)
(* 0 <= x < width and 0 <= y < height, whatever the rectangle.             *)
C10_ClampSafety ==
    hist.op = "blacken" =>
        \A pos \in hist.writes :
            /\ 0 <= pos[1] /\ pos[1] < hist.img.w
            /\ 0 <= pos[2] /\ pos[2] < hist.img.h
C10_Witness ==
    /\ hist.op = "blacken"
    /\ hist.img.w = 1
    /\ hist.rect[3] > hist.img.w /\ hist.rect[4] > hist.img.h
    /\ hist.writes # {}

(* C3: redact-save-reload round trip.  When the loaded file is one saved   *)
(* from a document that was loaded from a 16-bit MONOCHROME2 DICOM and     *)
(* redacted by drags, every canonical sample under a drag is 0 and every   *)
(* other sample is the sample of the originally loaded image.              *)
SavedFrom16BitMono2(f) ==
    /\ f.kind = "dicom"
    /\ IsSome(f.prov)
    /\ IsSome(Get(f.prov).origin)
    /\ Get(Get(f.prov).origin).file.kind = "dicom"
    /\ Get(Get(f.prov).origin).file.c.ba.v = 16
    /\ Get(Get(f.prov).origin).file.c.pi.v = "MONOCHROME2"
C3_RoundTrip ==
    (LoadOp /\ hist.ok /\ SavedFrom16BitMono2(fs[hist.path])) =>
        LET pv == Get(fs[hist.path].prov)
            first == Get(pv.origin).img
            img == Get(gray_img)
        IN  /\ img.w = first.w /\ img.h = first.h
            /\ \A pos \in Positions(first) :
                  GetPixel(img, pos[1], pos[2]) =
                     IF pos \in pv.redacted THEN 0 ELSE GetPixel(first, pos[1], pos[2])
C3_Witness ==
    /\ LoadOp /\ hist.ok /\ SavedFrom16BitMono2(fs[hist.path])
    /\ Cardinality(Get(fs[hist.path].prov).redacted) >= 2
    /\ \E pos \in Positions(Get(gray_img)) : GetPixel(Get(gray_img), pos[1], pos[2]) # 0

(* C4: in every DICOM file a save writes, BitsAllocated is the width of    *)
(* the PixelData words written, BitsStored and HighBit describe bits that  *)
(* hold every written sample, and PixelRepresentation is unsigned like the *)
(* samples.                                                                *)
C4_TagsMatchSamples ==
    (hist.op = "save" /\ hist.ok /\ hist.dicom) =>
        LET c == fs[hist.path].c
        IN  /\ c.px.buf = Get(gray_img).buf
            /\ c.ba.st = "ok" /\ c.ba.v = 16
            /\ c.bs <= c.ba.v
            /\ c.hb = c.bs - 1
            /\ c.pr = 0
            /\ \A i \in DOMAIN c.px.buf : 0 <= c.px.buf[i] /\ c.px.buf[i] < Pow2(c.bs)
C4_Witness ==
    /\ hist.op = "save" /\ hist.ok /\ hist.dicom
    /\ IsSome(origin) /\ Get(origin).file.kind = "dicom"
    /\ Get(origin).file.c.ba.v = 12
    /\ \E i \in DOMAIN fs[hist.path].c.px.buf : fs[hist.path].c.px.buf[i] >= 4096

(* C5: the file saved from a DICOM document declares the BitsAllocated and *)
(* the PhotometricInterpretation that were read when it was loaded.        *)
C5_SavePreservesDepthAndPolarity ==
    (hist.op = "save" /\ hist.ok /\ hist.dicom
        /\ IsSome(origin) /\ Get(origin).file.kind = "dicom") =>
        /\ fs[hist.path].c.ba = Get(origin).file.c.ba
        /\ fs[hist.path].c.pi = Get(origin).file.c.pi

(* C6: a save whose write fails ends with the error notice set. *)
C6_WriteFailureReported ==
    (hist.op = "save" /\ ~hist.ok) => IsSome(last_error)

(* C7: validator rejection.  A DICOM load succeeds only if BitsAllocated   *)
(* is present and 12 or 16 and PhotometricInterpretation is present and    *)
(* MONOCHROME1 or MONOCHROME2; otherwise it is rejected with an error that *)
(* names the first offending tag, missing when the tag is absent and       *)
(* invalid otherwise, and the canonical image stays as it was.             *)
TagErrKind(e) ==
    IF e.st = "absent" THEN "Missing" ELSE IF e.st = "bad" THEN "Invalid" ELSE "Mismatched"
C7_ValidatorRejection ==
    (LoadOp /\ IsDcmExt(hist.path.ext) /\ fs[hist.path].kind = "dicom") =>
        LET c == fs[hist.path].c
            baOK == c.ba.st = "ok" /\ c.ba.v \in {12, 16}
            piOK == c.pi.st = "ok" /\ c.pi.v \in {"MONOCHROME1", "MONOCHROME2"}
        IN  /\ hist.ok => (baOK /\ piOK)
            /\ ~baOK => /\ ~hist.ok
                        /\ hist.err.kind = TagErrKind(c.ba)
                        /\ hist.err.what = "BITS_ALLOCATED"
            /\ (baOK /\ ~piOK) => /\ ~hist.ok
                                  /\ hist.err.kind = TagErrKind(c.pi)
                                  /\ hist.err.what = "PHOTOMETRIC_INTERPRETATION"
            /\ ~hist.ok => /\ gray_img = hist.prev.gray_img
                           /\ IsSome(last_error)
                           /\ Get(last_error).kind = hist.err.kind
                           /\ Get(last_error).what = hist.err.what
C7_Witness ==
    /\ LoadOp /\ ~hist.ok
    /\ fs[hist.path].kind = "dicom"
    /\ fs[hist.path].c.pi.v = "RGB"
    /\ IsSome(hist.prev.gray_img)

(* C8: coordinate mapping.  A point outside the rectangle maps to None; a  *)
(* point inside maps to x = floor(u * width), y = floor(v * height)        *)
(* clamped to the last index, so to a valid pixel; the top-left corner     *)
(* maps to (0, 0); and scaling the rectangle and the point's offset by the *)
(* same zoom factor gives the same pixel.                                  *)
AxisIsFloor(v, q, lo, size, dim) ==
    /\ 0 <= v /\ v <= dim - 1
    /\ IF (q - lo) * dim >= dim * size
       THEN v = dim - 1
       ELSE v * size <= (q - lo) * dim /\ (q - lo) * dim < (v + 1) * size
C8_CoordinateMapping ==
    hist.op = "map" =>
        LET r == hist.rect
            p == hist.p
            w == Get(gray_img).w
            h == Get(gray_img).h
            inside == /\ r.left <= p[1] /\ p[1] <= r.right
                      /\ r.top <= p[2] /\ p[2] <= r.bottom
        IN  /\ ~inside => hist.res = None
            /\ inside =>
                /\ IsSome(hist.res)
                /\ AxisIsFloor(Get(hist.res)[1], p[1], r.left, r.right - r.left, w)
                /\ AxisIsFloor(Get(hist.res)[2], p[2], r.top, r.bottom - r.top, h)
                /\ (p = <<r.left, r.top>>) => hist.res = Some(<<0, 0>>)
                /\ \A z \in 1..MaxCoord :
                      screen_to_pixel(gray_img,
                          MkRect(r.left, r.top, z * (r.right - r.left), z * (r.bottom - r.top)),
                          <<r.left + z * (p[1] - r.left), r.top + z * (p[2] - r.top)>>)
                      = hist.res
C8_Witness ==
    /\ hist.op = "map"
    /\ Get(gray_img).w = 2
    /\ hist.p[1] = hist.rect.right
    /\ hist.rect.top < hist.p[2] /\ hist.p[2] < hist.rect.bottom
    /\ hist.res = Some(<<1, 0>>)

(* C9: display projection.  Whenever a document is open, each display      *)
(* pixel is the high byte of its nearest-neighbour canonical sample,       *)
(* inverted to 255 - v exactly when the document's photometric             *)
(* interpretation is MONOCHROME1.                                          *)
DocPhotometric ==
    IF IsSome(origin) /\ Get(origin).file.kind = "dicom"
    THEN Some(Get(origin).file.c.pi.v) ELSE None
C9_DisplayProjection ==
    IsSome(gray_img) =>
        /\ IsSome(color_img) /\ IsSome(display_dims)
        /\ LET img == Get(gray_img)
               ci == Get(color_img)
               dw == Get(display_dims)[1]
               dh == Get(display_dims)[2]
           IN  /\ ci.size = <<dw, dh>>
               /\ \A i \in 1..(dw * dh) :
                     LET sx == Min(((2 * ((i - 1) % dw) + 1) * img.w) \div (2 * dw), img.w - 1)
                         sy == Min(((2 * ((i - 1) \div dw) + 1) * img.h) \div (2 * dh), img.h - 1)
                         v == GetPixel(img, sx, sy) \div 256
                     IN  ci.pixels[i] =
                            IF DocPhotometric = Some("MONOCHROME1") THEN 255 - v ELSE v

(* C11: metadata/pixel coherence on save.  Whenever a canonical buffer is  *)
(* held, the format state Save consults comes from the successful load     *)
(* that produced the buffer: opened_path is that load's path, is_dcm tells *)
(* whether that load read a DICOM file, dcm is that file's container (as   *)
(* read, or with the elements a save has put into it) and                  *)
(* photometric_interpretation is that container's value, and both are      *)
(* absent for a raster load; and a save that wrote a file used the DICOM   *)
(* writer exactly when the buffer was decoded from a DICOM file.           *)
FromContainer(d, c) == d = c \/ d = PutImageTags(c, d.px)
C11_SaveCoherence ==
    /\ IsSome(gray_img) =>
          /\ IsSome(origin)
          /\ opened_path = Some(Get(origin).path)
          /\ is_dcm = (Get(origin).file.kind = "dicom")
          /\ IF Get(origin).file.kind = "dicom"
             THEN /\ IsSome(dcm)
                  /\ FromContainer(Get(dcm), Get(origin).file.c)
                  /\ photometric_interpretation = Some(Get(origin).file.c.pi.v)
             ELSE /\ dcm = None
                  /\ photometric_interpretation = None
    /\ (hist.op = "save" /\ hist.ok) =>
          LET pv == Get(fs[hist.path].prov)
          IN  /\ IsSome(pv.origin)
              /\ hist.dicom = (Get(pv.origin).file.kind = "dicom")
              /\ hist.dicom =>
                    FromContainer(fs[hist.path].c, Get(pv.origin).file.c)
====
